---- MODULE Spec2Model ----
(***************************************************************************)
(* A model of qgis-tidy (src/src/qgis_tidy/__main__.py): the XML           *)
(* canonicalizer (normalize_xml_bytes and its passes), the archive         *)
(* rebuilder (_repack_qgz), and the command line driver (main).            *)
(*                                                                         *)
(* Text is modelled as a tuple of one-character strings, so that the       *)
(* program's string operations (lower, endswith, fnmatch, float, <) are    *)
(* computed on the characters.                                             *)
(***************************************************************************)
EXTENDS Integers, Sequences, FiniteSets, TLC

(***************************************************************************)
(* Bounds of the model.                                                    *)
(***************************************************************************)
\* The longest child list of a sorted parent in the XML inputs.
MaxKids == 3
\* The most entries of a source archive of the rebuilder.
MaxEntries == 3
\* The most entries of the archive a run of the program is given.
MaxRunEntries == 2

\* Python's None where a str is expected: no str of the model is this tuple.
None == <<"None">>
\* Python's None where bytes are expected.
NoBytes == [kind |-> "none"]
\* The exit code of a run that has not exited.
NoExit == 0 - 1

\* F(val), with val computed once and F applied to the computed value.
With(val, F(_)) == CHOOSE r \in {F(y) : y \in {val}} : TRUE

\* The sequence s with its items computed.
Strict(s) == SubSeq(s, 1, Len(s))

(***************************************************************************)
(* Characters and strings.                                                 *)
(***************************************************************************)
\* The printable ASCII characters in code point order, starting at code point 32
\* (Python compares str by code point); dq, sq, bs and bt stand for the two
\* quotes, the backslash and the backtick, which no input uses.
Ascii ==
    << " ", "!", "dq", "#", "$", "%", "&", "sq", "(", ")", "*", "+", ",", "-", ".", "/",
       "0", "1", "2", "3", "4", "5", "6", "7", "8", "9", ":", ";", "<", "=", ">", "?",
       "@", "A", "B", "C", "D", "E", "F", "G", "H", "I", "J", "K", "L", "M", "N", "O",
       "P", "Q", "R", "S", "T", "U", "V", "W", "X", "Y", "Z", "[", "bs", "]", "^", "_",
       "bt", "a", "b", "c", "d", "e", "f", "g", "h", "i", "j", "k", "l", "m", "n", "o",
       "p", "q", "r", "s", "t", "u", "v", "w", "x", "y", "z", "{", "|", "}", "~" >>

OrdTable == [c \in {Ascii[i] : i \in 1..Len(Ascii)} |->
                31 + (CHOOSE i \in 1..Len(Ascii) : Ascii[i] = c)]

\* ord(c)
Ord(c) == OrdTable[c]

\* chr(n)
Chr(n) == Ascii[n - 31]

\* c.lower() of one character
LowerChar(c) == IF Ord(c) >= 65 /\ Ord(c) <= 90 THEN Chr(Ord(c) + 32) ELSE c

\* str.lower()
Lower(s) == [i \in 1..Len(s) |-> LowerChar(s[i])]

\* str.endswith(suffix)
EndsWith(s, suffix) ==
    /\ Len(suffix) <= Len(s)
    /\ SubSeq(s, Len(s) - Len(suffix) + 1, Len(s)) = suffix

\* s < t for str: the first differing code point decides, a proper prefix is smaller.
RECURSIVE StrLess(_, _)
StrLess(s, t) ==
    IF t = << >> THEN FALSE
    ELSE IF s = << >> THEN TRUE
    ELSE IF s[1] # t[1] THEN Ord(s[1]) < Ord(t[1])
    ELSE StrLess(Tail(s), Tail(t))

IsDigit(c) == Ord(c) >= 48 /\ Ord(c) <= 57

RECURSIVE DigitsValue(_)
DigitsValue(s) ==
    IF s = << >> THEN 0
    ELSE 10 * DigitsValue(SubSeq(s, 1, Len(s) - 1)) + (Ord(s[Len(s)]) - 48)

RECURSIVE Pow10(_)
Pow10(n) == IF n = 0 THEN 1 ELSE 10 * Pow10(n - 1)

AllDigits(s) == \A i \in 1..Len(s) : IsDigit(s[i])

DotAt(s) == IF \E i \in 1..Len(s) : s[i] = "."
            THEN CHOOSE i \in 1..Len(s) : s[i] = "." /\ \A j \in 1..(i - 1) : s[j] # "."
            ELSE 0

\* float(v) of an unsigned literal: digits, digits with a fraction, nan, inf,
\* infinity (any case).  The result is a rational num/den, or nan, or inf; "err" is
\* the ValueError float raises.  Exponents, underscores and surrounding blanks do
\* not occur in the keys of the inputs.
FloatUnsigned(s) ==
    LET l == Lower(s)
        d == DotAt(s)
        ip == IF d = 0 THEN s ELSE SubSeq(s, 1, d - 1)
        fp == IF d = 0 THEN << >> ELSE SubSeq(s, d + 1, Len(s))
    IN  IF l = <<"n", "a", "n">> THEN [kind |-> "nan", num |-> 0, den |-> 1]
        ELSE IF l = <<"i", "n", "f">> \/ l = <<"i", "n", "f", "i", "n", "i", "t", "y">>
             THEN [kind |-> "inf", num |-> 1, den |-> 1]
        ELSE IF AllDigits(ip) /\ AllDigits(fp) /\ Len(ip) + Len(fp) > 0
             THEN [kind |-> "num", num |-> DigitsValue(ip \o fp), den |-> Pow10(Len(fp))]
        ELSE [kind |-> "err", num |-> 0, den |-> 1]

\* float(v): an optional sign, then the unsigned literal.
Float(s) ==
    IF s # << >> /\ s[1] \in {"+", "-"}
    THEN LET u == FloatUnsigned(Tail(s))
         IN  IF s[1] = "-" THEN [u EXCEPT !.num = 0 - u.num] ELSE u
    ELSE FloatUnsigned(s)

\* a < b for two floats: every comparison with nan is false.
FloatLess(a, b) ==
    IF a.kind = "nan" \/ b.kind = "nan" THEN FALSE
    ELSE IF a.kind = "inf" /\ b.kind = "inf" THEN a.num < b.num
    ELSE IF a.kind = "inf" THEN a.num < 0
    ELSE IF b.kind = "inf" THEN b.num > 0
    ELSE a.num * b.den < b.num * a.den

\* a == b for two floats of different objects: nan equals nothing.
FloatEq(a, b) ==
    IF a.kind = "nan" \/ b.kind = "nan" THEN FALSE
    ELSE IF a.kind = "inf" \/ b.kind = "inf" THEN a.kind = b.kind /\ a.num = b.num
    ELSE a.num * b.den = b.num * a.den

(***************************************************************************)
(* The document tree.  An item of a child list is an element, a comment    *)
(* or a blank (whitespace-only) text node; a document's bytes are its      *)
(* serialized tree, or Malformed when they are not well-formed XML.        *)
(***************************************************************************)
Elem(tag, attrs, text, kids) ==
    [kind |-> "elem", tag |-> tag, attrs |-> attrs, text |-> text, kids |-> kids]

Comment == [kind |-> "comment"]

Blank == [kind |-> "blank"]

Malformed == [kind |-> "malformed"]

IsElem(x) == x.kind = "elem"

\* The attribute names and values the inputs use.
a_key == <<"k", "e", "y">>
a_name == <<"n", "a", "m", "e">>
a_field == <<"f", "i", "e", "l", "d">>
a_id == <<"i", "d">>
a_uuid == <<"u", "u", "i", "d">>
a_expanded == <<"e", "x", "p", "a", "n", "d", "e", "d">>
a_selected == <<"s", "e", "l", "e", "c", "t", "e", "d">>
a_lastSaved == <<"l", "a", "s", "t", "S", "a", "v", "e", "d">>
a_timestamp == <<"t", "i", "m", "e", "s", "t", "a", "m", "p">>
a_lastOpened == <<"l", "a", "s", "t", "O", "p", "e", "n", "e", "d">>
a_version == <<"v", "e", "r", "s", "i", "o", "n">>

\* A selector of a sort key: "@name" or "text()".
AttrKey(n) == [axis |-> "attr", name |-> n]
TextKey == [axis |-> "text", name |-> << >>]

SortRule(p, c, k) == [parent_xpath |-> p, child_xpath |-> c, key_xpath |-> k]

DEFAULT_RULES ==
    [strip_attributes |->
        <<a_expanded, a_selected, a_lastSaved, a_timestamp, a_uuid, a_lastOpened>>,
     sort_rules |->
        << SortRule("customproperties", "property", AttrKey(a_key)),
           SortRule("variables", "variable", AttrKey(a_name)),
           SortRule("fieldConfiguration", "field", AttrKey(a_name)),
           SortRule("aliases", "alias", AttrKey(a_name)),
           SortRule("attributealiases", "alias", AttrKey(a_field)),
           SortRule("constraints", "constraint", AttrKey(a_field)),
           SortRule("excludedAttributes", "attribute", TextKey),
           SortRule("individual-layer-settings", "layer-setting", AttrKey(a_id)) >>]

\* list(dict.fromkeys(s)): the first occurrence of every item, in order
RECURSIVE Dedup(_)
Dedup(s) ==
    IF s = << >> THEN << >>
    ELSE LET r == Dedup(SubSeq(s, 1, Len(s) - 1))
             x == s[Len(s)]
         IN  IF \E i \in 1..Len(r) : r[i] = x THEN r ELSE Append(r, x)

\* What load_yaml returns without a usable file: None.  (merge_rules treats an
\* empty mapping alike: "if not extra".)
NoRules == << >>

\* merge_rules(base, extra): extra is None or a mapping with some of the two keys.
merge_rules(base, extra) ==
    IF DOMAIN extra = {} THEN base
    ELSE [strip_attributes |->
             IF "strip_attributes" \in DOMAIN extra
             THEN Dedup(base.strip_attributes \o extra.strip_attributes)
             ELSE base.strip_attributes,
          sort_rules |->
             IF "sort_rules" \in DOMAIN extra
             THEN base.sort_rules \o extra.sort_rules
             ELSE base.sort_rules]

(***************************************************************************)
(* strip_attrs                                                             *)
(***************************************************************************)
RECURSIVE WithoutAttrs(_, _)
WithoutAttrs(attrs, names) ==
    IF attrs = << >> THEN << >>
    ELSE IF \E i \in 1..Len(names) : names[i] = attrs[1][1]
         THEN WithoutAttrs(Tail(attrs), names)
         ELSE <<attrs[1]>> \o WithoutAttrs(Tail(attrs), names)

RECURSIVE StripNode(_, _)
StripNode(x, names) ==
    IF ~IsElem(x) THEN x
    ELSE [x EXCEPT !.attrs = WithoutAttrs(x.attrs, names),
                   !.kids = [i \in 1..Len(x.kids) |-> StripNode(x.kids[i], names)]]

\* A stripping that stops at the root element (/@n in place of //@n): the
\* variant of strip_attrs that C9 must tell from it.
strip_attrs_root_only(tree, names) ==
    IF names = << >> \/ ~IsElem(tree) THEN tree
    ELSE [tree EXCEPT !.attrs = WithoutAttrs(tree.attrs, names)]

\* strip_attrs(tree, names): //@n for every name, each hit deleted from its element.
strip_attrs(tree, names) ==
    IF names = << >> THEN tree ELSE StripNode(tree, names)

(***************************************************************************)
(* sort_children                                                           *)
(***************************************************************************)
AttrValues(x, n) ==
    IF \E i \in 1..Len(x.attrs) : x.attrs[i][1] = n
    THEN <<x.attrs[CHOOSE i \in 1..Len(x.attrs) : x.attrs[i][1] = n][2]>>
    ELSE << >>

\* child.xpath(key_xpath): the list of matches
XPathKey(child, key_xpath) ==
    IF key_xpath.axis = "attr" THEN AttrValues(child, key_xpath.name)
    ELSE IF child.text = None THEN << >> ELSE <<child.text>>

\* str([]): what str() makes of an empty result list
StrOfEmptyList == <<"[", "]">>

\* key_for(child): (0, float(v)) when v parses, (1, v) otherwise
key_for(child, key_xpath) ==
    LET res == XPathKey(child, key_xpath)
        v == IF res # << >> THEN res[1] ELSE StrOfEmptyList
        f == Float(v)
    IN  IF f.kind # "err" THEN [cls |-> 0, f |-> f, s |-> << >>]
        ELSE [cls |-> 1, f |-> f, s |-> v]

\* a < b for two key tuples: the first unequal component decides.
KeyLess(a, b) ==
    IF a.cls # b.cls THEN a.cls < b.cls
    ELSE IF a.cls = 0 THEN ~FloatEq(a.f, b.f) /\ FloatLess(a.f, b.f)
    ELSE StrLess(a.s, b.s)

\* list.sort of a short list (under 64 items) of <<key, item>> pairs: the
\* leading run is found (and reversed when strictly descending), the rest is
\* inserted by binary insertion.
RECURSIVE RunLength(_, _, _)
RunLength(ps, n, desc) ==
    IF n >= Len(ps) THEN n
    ELSE IF KeyLess(ps[n + 1][1], ps[n][1]) = desc THEN RunLength(ps, n + 1, desc)
    ELSE n

Reverse(s) == [i \in 1..Len(s) |-> s[Len(s) + 1 - i]]

RECURSIVE BinaryPos(_, _, _, _)
BinaryPos(ps, pivot, l, r) ==
    LET p == l + ((r - l) \div 2)
        l2 == IF KeyLess(pivot[1], ps[p + 1][1]) THEN l ELSE p + 1
        r2 == IF KeyLess(pivot[1], ps[p + 1][1]) THEN p ELSE r
    IN  IF l2 < r2 THEN BinaryPos(ps, pivot, l2, r2) ELSE l2

RECURSIVE BinarySort(_, _)
BinarySort(done, rest) ==
    IF rest = << >> THEN done
    ELSE LET pos == BinaryPos(done, rest[1], 0, Len(done))
         IN  BinarySort(SubSeq(done, 1, pos) \o <<rest[1]>> \o SubSeq(done, pos + 1, Len(done)),
                        Tail(rest))

sorted(ps) ==
    IF Len(ps) < 2 THEN ps
    ELSE LET desc == KeyLess(ps[2][1], ps[1][1])
             n == RunLength(ps, 2, desc)
             run == IF desc THEN Reverse(SubSeq(ps, 1, n)) ELSE SubSeq(ps, 1, n)
         IN  BinarySort(run, SubSeq(ps, n + 1, Len(ps)))

RECURSIVE Select(_, _)
Select(s, keep) ==
    IF s = << >> THEN << >>
    ELSE IF keep[1] THEN <<s[1]>> \o Select(Tail(s), Tail(keep))
    ELSE Select(Tail(s), Tail(keep))

\* parent.findall(child_xpath): the element children with that tag
Matches(kids, child_xpath) ==
    [i \in 1..Len(kids) |-> IsElem(kids[i]) /\ kids[i].tag = child_xpath]

\* sort_children(parent, child_xpath, key_xpath), on the parent's child list
sort_children(kids, child_xpath, key_xpath) ==
    LET m == Matches(kids, child_xpath)
        children == Select(kids, m)
        keyed == [i \in 1..Len(children) |-> <<key_for(children[i], key_xpath), children[i]>>]
        sorted_children == sorted(keyed)
    IN  IF Len(children) < 2 THEN kids
        ELSE Select(kids, [i \in 1..Len(kids) |-> ~m[i]])
             \o [i \in 1..Len(sorted_children) |-> sorted_children[i][2]]

\* One rule applied at every element the parent selector //tag finds.
RECURSIVE ApplyRule(_, _)
ApplyRule(x, rule) ==
    IF ~IsElem(x) THEN x
    ELSE LET kids == [i \in 1..Len(x.kids) |-> ApplyRule(x.kids[i], rule)]
         IN  [x EXCEPT !.kids = IF x.tag = rule.parent_xpath
                                 THEN sort_children(kids, rule.child_xpath, rule.key_xpath)
                                 ELSE kids]

\* apply_sort_rules(tree, rules): the rules in order
RECURSIVE apply_sort_rules(_, _)
apply_sort_rules(tree, rules) ==
    IF rules = << >> THEN tree
    ELSE apply_sort_rules(ApplyRule(tree, rules[1]), Tail(rules))

(***************************************************************************)
(* normalize_xml_bytes.  The bytes of a document are modelled as the       *)
(* record [decl, root]: whether they start with an XML declaration, and    *)
(* the serialized tree with its comments and blank text nodes.             *)
(***************************************************************************)
Bytes(decl, root) == [kind |-> "xml", decl |-> decl, root |-> root]

\* What a raised lxml.etree.XMLSyntaxError is modelled as.
XMLSyntaxError == [kind |-> "XMLSyntaxError"]

\* The element's items without the blank text nodes, at every depth
\* (XMLParser(remove_blank_text=True)).
RECURSIVE RemoveBlankText(_)
RemoveBlankText(x) ==
    IF ~IsElem(x) THEN x
    ELSE LET keep == [i \in 1..Len(x.kids) |-> x.kids[i].kind # "blank"]
             kept == Select(x.kids, keep)
         IN  [x EXCEPT !.kids = [i \in 1..Len(kept) |-> RemoveBlankText(kept[i])]]

\* Attributes in the order canonical XML writes them: ascending by name.
RECURSIVE SortAttrs(_)
SortAttrs(attrs) ==
    IF attrs = << >> THEN << >>
    ELSE LET least == CHOOSE i \in 1..Len(attrs) :
                          \A j \in 1..Len(attrs) : j = i \/ StrLess(attrs[i][1], attrs[j][1])
         IN  <<attrs[least]>>
             \o SortAttrs(SubSeq(attrs, 1, least - 1) \o SubSeq(attrs, least + 1, Len(attrs)))

\* tostring(method="c14n", with_comments=False) and the parse of its result:
\* attributes in canonical order, comments gone.
RECURSIVE C14N(_)
C14N(x) ==
    IF ~IsElem(x) THEN x
    ELSE LET keep == [i \in 1..Len(x.kids) |-> x.kids[i].kind # "comment"]
             kept == Select(x.kids, keep)
         IN  [x EXCEPT !.attrs = SortAttrs(x.attrs),
                       !.kids = [i \in 1..Len(kept) |-> C14N(kept[i])]]

\* tostring(pretty_print=True): an element with children and no text of its own
\* gets a blank text node (line break and indentation) before every child and
\* one before its end tag.
RECURSIVE PrettyPrint(_)
PrettyPrint(x) ==
    IF ~IsElem(x) \/ x.kids = << >> THEN x
    ELSE IF x.text # None
         THEN [x EXCEPT !.kids = [i \in 1..Len(x.kids) |-> PrettyPrint(x.kids[i])]]
    ELSE [x EXCEPT !.kids =
            [i \in 1..(2 * Len(x.kids) + 1) |->
                IF i % 2 = 1 THEN Blank ELSE PrettyPrint(x.kids[i \div 2])]]

\* normalize_xml_bytes(data, rules): the new bytes, or XMLSyntaxError raised
\* by the parse.
normalize_xml_bytes(data, rules) ==
    IF data.kind # "xml" THEN XMLSyntaxError
    ELSE LET root == RemoveBlankText(data.root)
             stripped == strip_attrs(root, rules.strip_attributes)
             tree == apply_sort_rules(stripped, rules.sort_rules)
             root2 == C14N(tree)
         IN  Bytes(TRUE, PrettyPrint(root2))

(***************************************************************************)
(* Archives.  The bytes of a .qgz are modelled as the list of its entries  *)
(* in central directory order, each with its name, its content and the     *)
(* metadata the archive format stores with it.                             *)
(***************************************************************************)
Entry(filename, data, meta) == [filename |-> filename, data |-> data, meta |-> meta]

Zip(entries) == [kind |-> "zip", entries |-> entries]

\* The metadata _repack_qgz gives every entry it writes.
DeterministicMeta ==
    [date_time |-> <<1980, 1, 1, 0, 0, 0>>, create_system |-> "Unix",
     compress_type |-> "ZIP_DEFLATED", compresslevel |-> "9"]

\* The metadata of an archive as another tool packs it.
ForeignMeta ==
    [date_time |-> <<2024, 5, 17, 9, 30, 12>>, create_system |-> "Windows",
     compress_type |-> "ZIP_STORED", compresslevel |-> "default"]

\* Content that is no XML document: the bytes of an image, and no bytes at all
\* (what ZipFile.read returns for a directory entry).
RawBytes(id) == [kind |-> "raw", id |-> id]
EmptyBytes == RawBytes("empty")

ext_qgs == <<".", "q", "g", "s">>
ext_xml == <<".", "x", "m", "l">>
ext_qml == <<".", "q", "m", "l">>
ext_sld == <<".", "s", "l", "d">>
ext_qgz == <<".", "q", "g", "z">>

\* fnmatch.fnmatchcase(name, pat) for patterns of literal characters, * and ?.
RECURSIVE fnmatch(_, _)
fnmatch(name, pat) ==
    IF pat = << >> THEN name = << >>
    ELSE IF pat[1] = "*"
         THEN \/ fnmatch(name, Tail(pat))
              \/ name # << >> /\ fnmatch(Tail(name), pat)
    ELSE IF name = << >> THEN FALSE
    ELSE (pat[1] = "?" \/ pat[1] = name[1]) /\ fnmatch(Tail(name), Tail(pat))

\* str.strip() of blanks
RECURSIVE Strip(_)
Strip(s) ==
    IF s = << >> THEN s
    ELSE IF s[1] = " " THEN Strip(Tail(s))
    ELSE IF s[Len(s)] = " " THEN Strip(SubSeq(s, 1, Len(s) - 1))
    ELSE s

\* str.split(",")
RECURSIVE Split(_)
Split(s) ==
    IF \E i \in 1..Len(s) : s[i] = ","
    THEN LET c == CHOOSE i \in 1..Len(s) : s[i] = "," /\ \A j \in 1..(i - 1) : s[j] # ","
         IN  <<SubSeq(s, 1, c - 1)>> \o Split(SubSeq(s, c + 1, Len(s)))
    ELSE <<s>>

\* [s.strip() for s in include_xml.split(",") if s.strip()]
IncludePatterns(include_xml) ==
    LET parts == Split(include_xml)
        stripped == [i \in 1..Len(parts) |-> Strip(parts[i])]
    IN  Select(stripped, [i \in 1..Len(stripped) |-> stripped[i] # << >>])

\* sorted(names) for a list of str
RECURSIVE SortNames(_)
SortNames(names) ==
    IF names = << >> THEN << >>
    ELSE LET least == CHOOSE i \in 1..Len(names) :
                          /\ \A j \in 1..Len(names) : ~StrLess(names[j], names[i])
                          /\ \A j \in 1..(i - 1) : names[j] # names[i]
         IN  <<names[least]>>
             \o SortNames(SubSeq(names, 1, least - 1) \o SubSeq(names, least + 1, Len(names)))

\* [zi.filename for zi in zin.infolist()]
Names(zin) == [i \in 1..Len(zin.entries) |-> zin.entries[i].filename]

\* The entries visited as the source lists them (for name in names): the
\* variant of EntryOrder that C4 must tell from it.
EntryOrderAsListed(names) == names

\* The order in which _repack_qgz visits the entries: for name in sorted(names).
EntryOrder(names) == SortNames(names)

\* qgs_names: the names whose lower case ends with .qgs
QgsNames(names) ==
    Select(names, [i \in 1..Len(names) |-> EndsWith(Lower(names[i]), ext_qgs)])

\* qgs_name = sorted(qgs_names)[0] if qgs_names else None
QgsName(names) ==
    IF QgsNames(names) = << >> THEN None ELSE SortNames(QgsNames(names))[1]

\* zin.read(name): the content of the entry of that name (the last one, should
\* a name occur twice)
ZipRead(zin, name) ==
    zin.entries[CHOOSE i \in 1..Len(zin.entries) :
                    /\ zin.entries[i].filename = name
                    /\ \A j \in (i + 1)..Len(zin.entries) : zin.entries[j].filename # name].data

\* should_tidy, before the test of the extension
ShouldTidy(name, qgs_name, include_patterns) ==
    IF qgs_name # None /\ name = qgs_name THEN TRUE
    ELSE \E i \in 1..Len(include_patterns) : fnmatch(name, include_patterns[i])

\* name.lower().endswith((".qgs", ".xml", ".qml", ".sld"))
XmlExtension(name) ==
    \E e \in {ext_qgs, ext_xml, ext_qml, ext_sld} : EndsWith(Lower(name), e)

\* Whether the loop body calls normalize_xml_bytes on the entry of that name.
Tidied(name, qgs_name, include_patterns) ==
    ShouldTidy(name, qgs_name, include_patterns) /\ XmlExtension(name)

\* One pass of the loop body, for the entry of that name: the content read,
\* whether normalize_xml_bytes is called on it and raises, and the content
\* written (the normalized bytes, or the original ones when the entry is not
\* tidied or normalize_xml_bytes raised).
RepackEntry(zin, name, qgs_name, rules, include_patterns) ==
    LET data == ZipRead(zin, name)
        tidy == Tidied(name, qgs_name, include_patterns)
    IN  With(IF tidy THEN normalize_xml_bytes(data, rules) ELSE data,
             LAMBDA new :
                [filename |-> name,
                 data |-> data,
                 tidy |-> tidy,
                 failed |-> new = XMLSyntaxError,
                 new_data |-> IF new = XMLSyntaxError THEN data ELSE new])

\* _repack_qgz(in_path, out_path, rules, include_patterns, quiet) on an input
\* whose bytes are old_bytes: the archive built in memory, the flag returned,
\* whether out_path is written, and what the loop did on the way.
_repack_qgz(old_bytes, in_path, out_path, rules, include_patterns) ==
    LET names == Names(old_bytes)
        qgs_name == QgsName(names)
        order == EntryOrder(names)
    IN  With(Strict([i \in 1..Len(order) |->
                        RepackEntry(old_bytes, order[i], qgs_name, rules, include_patterns)]),
             LAMBDA es :
                LET new_bytes == Zip([i \in 1..Len(es) |->
                                        Entry(es[i].filename, es[i].new_data, DeterministicMeta)])
                    differs == new_bytes # old_bytes
                IN  [new_bytes |-> new_bytes,
                     changed |-> (\E i \in 1..Len(es) : es[i].new_data # es[i].data) \/ differs,
                     wrote |-> differs \/ out_path # in_path,
                     qgs_name |-> qgs_name,
                     tidied |-> {es[i].filename : i \in {j \in 1..Len(es) : es[j].tidy}},
                     failed |-> {es[i].filename : i \in {j \in 1..Len(es) : es[j].failed}},
                     log |-> [i \in 1..Len(es) |->
                                IF ~es[i].tidy THEN ""
                                ELSE IF es[i].failed THEN "WARNING" ELSE "normalized"]])

(***************************************************************************)
(* _process_qgs and main: one run of the program as a script.              *)
(***************************************************************************)
VARIABLES
    args,        \* the parsed command line
    fs,          \* the file system: the content at every path, or Absent
    stdin,       \* the bytes on standard input
    stdout,      \* the payloads written to standard output, in order
    stderr,      \* the diagnostics written to standard error, in order
    pc,          \* where the run is: "start", "repacked", "done"
    rc,          \* the exit code, once the run is done
    changed,     \* what _repack_qgz returned
    written,     \* the paths written so far
    normalized,  \* how often normalize_xml_bytes has been called so far
    source,      \* rebuild: the source archive
    perm,        \* rebuild: an order of the source's entries
    metas,       \* rebuild: metadata for the reordered entries
    patterns,    \* rebuild: the include patterns
    rebuilt,     \* rebuild: the archives built from the source and its variant
    doc,         \* canonicalize: the document's bytes
    rules,       \* canonicalize: the rule set
    once,        \* canonicalize: normalize_xml_bytes(doc, rules)
    twice,       \* canonicalize: normalize_xml_bytes(once, rules)
    kids_before, \* sort_children: the parent's child list before the call
    kids_after,  \* sort_children: the parent's child list after it
    rule,        \* sort_children: the rule applied
    xpc          \* canonicalize: "input", "once", "twice"

vars == <<args, fs, stdin, stdout, stderr, pc, rc, changed, written, normalized,
          source, perm, metas, patterns, rebuilt,
          doc, rules, once, twice, kids_before, kids_after, rule, xpc>>

cliVars == <<args, fs, stdin, stdout, stderr, pc, rc, changed, written, normalized>>
zipVars == <<source, perm, metas, patterns, rebuilt>>
xmlVars == <<doc, rules, once, twice, kids_before, kids_after, rule, xpc>>

Absent == [kind |-> "absent"]

\* The paths of the runs: three inputs and an output path.
stdin_dash == <<"-">>
p_qgs == <<"p", ".", "q", "g", "s">>
p_qgz == <<"P", ".", "Q", "G", "Z">>
p_txt == <<"p", ".", "t", "x", "t">>
o_path == <<"o", ".", "o", "u", "t">>
Paths == {p_qgs, p_qgz, p_txt, o_path}

\* Path(p).suffix: the name from its last dot on, when that is not its first
\* character
Suffix(p) ==
    IF \E i \in 2..Len(p) : p[i] = "."
    THEN SubSeq(p, CHOOSE i \in 2..Len(p) : p[i] = "." /\ \A j \in (i + 1)..Len(p) : p[j] # ".",
                Len(p))
    ELSE << >>

\* The entry names of the archives.
n_qgs == <<"a", ".", "q", "g", "s">>
n_QGS == <<"B", ".", "Q", "G", "S">>
n_qml == <<"s", ".", "q", "m", "l">>
n_png == <<"i", ".", "p", "n", "g">>
n_dir == <<"d", "/">>

pat_qml == <<"*", ".", "q", "m", "l">>
pat_two == <<" ", "*", ".", "p", "n", "g", ",", ",", "s", ".", "q", "?", "l", " ">>

v(c) == <<c>>

Property(k) == Elem("property", <<<<a_key, k>>>>, None, << >>)

\* A project as QGIS saves it, the same project already normalized under the
\* default rules, and bytes that are no XML.
RawProject ==
    Bytes(FALSE,
          Elem("qgis", <<<<a_version, v("3")>>, <<a_uuid, v("7")>>>>, None,
               << Blank, Comment,
                  Elem("customproperties", << >>, None,
                       <<Blank, Property(v("b")), Blank, Property(v("a")), Blank>>),
                  Blank >>))
TidyProject == normalize_xml_bytes(RawProject, DEFAULT_RULES)
XmlInputs == {RawProject, TidyProject, Malformed}

\* The entries an archive is made of.
EntryPool ==
    { Entry(n_qgs, d, DeterministicMeta) : d \in XmlInputs }
    \cup { Entry(n_QGS, RawProject, DeterministicMeta),
           Entry(n_qml, RawProject, DeterministicMeta),
           Entry(n_qml, Malformed, DeterministicMeta),
           Entry(n_png, RawBytes("png"), DeterministicMeta),
           Entry(n_dir, EmptyBytes, DeterministicMeta) }

DistinctNames(es) ==
    \A i, j \in 1..Len(es) : i # j => es[i].filename # es[j].filename

\* The archives of at most n entries with distinct names, all entries carrying
\* the metadata m.
Archives(n, m) ==
    { Zip([i \in 1..Len(es) |-> [es[i] EXCEPT !.meta = m]]) :
        es \in { s \in UNION { [1..k -> EntryPool] : k \in 0..n } : DistinctNames(s) } }

ArchiveInputs ==
    Archives(MaxRunEntries, DeterministicMeta) \cup Archives(MaxRunEntries, ForeignMeta)
    \cup {Malformed}

ContentsFor(input) ==
    IF input = p_qgs THEN XmlInputs \cup {Absent}
    ELSE IF input = p_qgz THEN ArchiveInputs \cup {Absent}
    ELSE IF input = p_txt THEN {RawProject, Absent}
    ELSE {Absent}

IdleZip ==
    /\ source = Zip(<< >>) /\ perm = << >> /\ metas = << >>
    /\ patterns = << >> /\ rebuilt = << >>

IdleXml ==
    /\ doc = Malformed /\ rules = DEFAULT_RULES /\ once = NoBytes /\ twice = NoBytes
    /\ kids_before = << >> /\ kids_after = << >> /\ rule = DEFAULT_RULES.sort_rules[1]
    /\ xpc = "idle"

IdleCli ==
    /\ args = [input |-> stdin_dash, inplace |-> FALSE, output |-> None,
               include_xml |-> << >>, list |-> FALSE, strict |-> FALSE,
               dry_run |-> FALSE, quiet |-> FALSE]
    /\ fs = [p \in Paths |-> Absent] /\ stdin = EmptyBytes
    /\ stdout = << >> /\ stderr = << >> /\ pc = "idle" /\ rc = NoExit
    /\ changed = FALSE /\ written = {} /\ normalized = 0

Init ==
    /\ \E input \in {stdin_dash, p_qgs, p_qgz, p_txt} :
         /\ \E inplace, list, strict, dry_run, quiet \in BOOLEAN :
            \E output \in {None, o_path, input} \ {stdin_dash} :
            \E include_xml \in {<< >>, pat_two} :
               args = [input |-> input, inplace |-> inplace, output |-> output,
                       include_xml |-> include_xml, list |-> list, strict |-> strict,
                       dry_run |-> dry_run, quiet |-> quiet]
         /\ \E content \in ContentsFor(input) :
               fs = [p \in Paths |-> IF p = input THEN content ELSE Absent]
         /\ stdin \in (IF input = stdin_dash THEN XmlInputs ELSE {EmptyBytes})
    /\ stdout = << >>
    /\ stderr = << >>
    /\ pc = "start"
    /\ rc = NoExit
    /\ changed = FALSE
    /\ written = {}
    /\ normalized = 0
    /\ IdleZip
    /\ IdleXml

\* rules = merge_rules(DEFAULT_RULES, load_yaml(args.config)) of a run without
\* --config
CliRules == merge_rules(DEFAULT_RULES, NoRules)

Exit(code) == rc' = code /\ pc' = "done"

IsStdin == args.input = stdin_dash
Exists == fs[args.input] # Absent
is_qgz == Lower(Suffix(args.input)) = ext_qgz
is_qgs == Lower(Suffix(args.input)) = ext_qgs

\* tmp_out = in_path if (inplace and not output) else Path(output) if output else None
tmp_out ==
    IF args.inplace /\ args.output = None THEN args.input
    ELSE IF args.output # None THEN args.output
    ELSE None

\* main, stdin mode with --inplace or --output: a usage error.
MainStdinUsage ==
    /\ pc = "start" /\ IsStdin
    /\ args.inplace \/ args.output # None
    /\ stderr' = Append(stderr, "ERROR")
    /\ Exit(2)
    /\ UNCHANGED <<args, fs, stdin, stdout, changed, written, normalized>>

\* main, stdin mode: normalize standard input to standard output.
MainStdin ==
    /\ pc = "start" /\ IsStdin
    /\ ~(args.inplace \/ args.output # None)
    /\ \E data \in {stdin} : \E out \in {normalize_xml_bytes(data, CliRules)} :
           /\ normalized' = normalized + 1
           /\ IF out = XMLSyntaxError
              THEN /\ stderr' = Append(stderr, "XML parse error")
                   /\ Exit(2)
                   /\ UNCHANGED stdout
              ELSE IF args.dry_run
              THEN /\ Exit(IF out # data THEN 1 ELSE 0)
                   /\ UNCHANGED <<stdout, stderr>>
              ELSE /\ stdout' = Append(stdout, out)
                   /\ Exit(0)
                   /\ UNCHANGED stderr
    /\ UNCHANGED <<args, fs, stdin, changed, written>>

\* main: the input path does not exist.
MainNotFound ==
    /\ pc = "start" /\ ~IsStdin /\ ~Exists
    /\ stderr' = Append(stderr, "ERROR")
    /\ Exit(2)
    /\ UNCHANGED <<args, fs, stdin, stdout, changed, written, normalized>>

\* main, .qgz with --list: print the entry names.
MainQgzList ==
    /\ pc = "start" /\ ~IsStdin /\ Exists /\ is_qgz
    /\ args.list
    /\ IF fs[args.input].kind # "zip"
       THEN /\ stderr' = Append(stderr, "ERROR")
            /\ Exit(3)
            /\ UNCHANGED stdout
       ELSE /\ stdout' = stdout \o Names(fs[args.input])
            /\ Exit(0)
            /\ UNCHANGED stderr
    /\ UNCHANGED <<args, fs, stdin, changed, written, normalized>>

\* main, .qgz with no destination and no --dry-run: a usage error.
MainQgzUsage ==
    /\ pc = "start" /\ ~IsStdin /\ Exists /\ is_qgz
    /\ ~args.list
    /\ tmp_out = None /\ ~args.dry_run
    /\ stderr' = Append(stderr, "ERROR")
    /\ Exit(2)
    /\ UNCHANGED <<args, fs, stdin, stdout, changed, written, normalized>>

\* main, .qgz: the call of _repack_qgz, with the write it makes.
MainQgzRepack ==
    /\ pc = "start" /\ ~IsStdin /\ Exists /\ is_qgz
    /\ ~args.list
    /\ ~(tmp_out = None /\ ~args.dry_run)
    /\ LET in_path == args.input
           out_path == IF tmp_out # None THEN tmp_out ELSE in_path
       IN  IF fs[in_path].kind # "zip"
           THEN /\ stderr' = Append(stderr, "ERROR")
                /\ Exit(3)
                /\ UNCHANGED <<fs, changed, written, normalized>>
           ELSE \E r \in {_repack_qgz(fs[in_path], in_path, out_path, CliRules,
                                      IncludePatterns(args.include_xml))} :
                /\ normalized' = normalized + Cardinality(r.tidied)
                /\ stderr' = IF args.quiet THEN stderr
                             ELSE stderr \o Select(r.log, [i \in 1..Len(r.log) |-> r.log[i] # ""])
                /\ fs' = IF r.wrote THEN [fs EXCEPT ![out_path] = r.new_bytes] ELSE fs
                /\ written' = IF r.wrote THEN written \cup {out_path} ELSE written
                /\ changed' = r.changed
                /\ pc' = "repacked"
                /\ UNCHANGED rc
    /\ UNCHANGED <<args, stdin, stdout>>

\* main, .qgz: the return after _repack_qgz.
MainQgzReturn ==
    /\ pc = "repacked"
    /\ Exit(IF args.dry_run THEN (IF changed THEN 1 ELSE 0) ELSE 0)
    /\ UNCHANGED <<args, fs, stdin, stdout, stderr, changed, written, normalized>>

\* main, .qgs with both --inplace and --output: a usage error.
MainQgsUsage ==
    /\ pc = "start" /\ ~IsStdin /\ Exists /\ ~is_qgz /\ is_qgs
    /\ args.output # None /\ args.inplace
    /\ stderr' = Append(stderr, "ERROR")
    /\ Exit(2)
    /\ UNCHANGED <<args, fs, stdin, stdout, changed, written, normalized>>

\* main, .qgs with --dry-run: normalize and compare.
MainQgsDryRun ==
    /\ pc = "start" /\ ~IsStdin /\ Exists /\ ~is_qgz /\ is_qgs
    /\ ~(args.output # None /\ args.inplace)
    /\ args.dry_run
    /\ \E data \in {fs[args.input]} : \E new \in {normalize_xml_bytes(data, CliRules)} :
           /\ normalized' = normalized + 1
           /\ IF new = XMLSyntaxError
              THEN stderr' = Append(stderr, "XML parse error") /\ Exit(2)
              ELSE UNCHANGED stderr /\ Exit(IF new # data THEN 1 ELSE 0)
    /\ UNCHANGED <<args, fs, stdin, stdout, changed, written>>

\* main, .qgs: _process_qgs(in_path, out_path, inplace, rules), which writes to
\* out_path, else in place, else to standard output.
MainQgs ==
    /\ pc = "start" /\ ~IsStdin /\ Exists /\ ~is_qgz /\ is_qgs
    /\ ~(args.output # None /\ args.inplace)
    /\ ~args.dry_run
    /\ \E in_path \in {args.input} : \E out_path \in {args.output} :
       \E data \in {fs[in_path]} : \E new \in {normalize_xml_bytes(data, CliRules)} :
           /\ normalized' = normalized + 1
           /\ IF new = XMLSyntaxError
              THEN /\ stderr' = Append(stderr, "XML parse error")
                   /\ Exit(2)
                   /\ UNCHANGED <<fs, stdout, written>>
              ELSE /\ IF out_path # None
                      THEN /\ fs' = [fs EXCEPT ![out_path] = new]
                           /\ written' = written \cup {out_path}
                           /\ UNCHANGED stdout
                      ELSE IF args.inplace
                      THEN /\ fs' = [fs EXCEPT ![in_path] = new]
                           /\ written' = written \cup {in_path}
                           /\ UNCHANGED stdout
                      ELSE /\ stdout' = Append(stdout, new)
                           /\ UNCHANGED <<fs, written>>
                   /\ Exit(0)
                   /\ UNCHANGED stderr
    /\ UNCHANGED <<args, stdin, changed>>

\* main: neither .qgz nor .qgs.
MainUnsupported ==
    /\ pc = "start" /\ ~IsStdin /\ Exists /\ ~is_qgz /\ ~is_qgs
    /\ stderr' = Append(stderr, "ERROR")
    /\ Exit(2)
    /\ UNCHANGED <<args, fs, stdin, stdout, changed, written, normalized>>

Next ==
    \/ MainStdinUsage /\ UNCHANGED <<zipVars, xmlVars>>
    \/ MainStdin /\ UNCHANGED <<zipVars, xmlVars>>
    \/ MainNotFound /\ UNCHANGED <<zipVars, xmlVars>>
    \/ MainQgzList /\ UNCHANGED <<zipVars, xmlVars>>
    \/ MainQgzUsage /\ UNCHANGED <<zipVars, xmlVars>>
    \/ MainQgzRepack /\ UNCHANGED <<zipVars, xmlVars>>
    \/ MainQgzReturn /\ UNCHANGED <<zipVars, xmlVars>>
    \/ MainQgsUsage /\ UNCHANGED <<zipVars, xmlVars>>
    \/ MainQgsDryRun /\ UNCHANGED <<zipVars, xmlVars>>
    \/ MainQgs /\ UNCHANGED <<zipVars, xmlVars>>
    \/ MainUnsupported /\ UNCHANGED <<zipVars, xmlVars>>

\* One run of the program.
Spec == Init /\ [][Next]_vars

(***************************************************************************)
(* Rebuild: _repack_qgz called on an archive and, independently, on a      *)
(* variant of it that holds the same entries in another order and with     *)
(* other metadata.                                                         *)
(***************************************************************************)
Identity(n) == [i \in 1..n |-> i]
Swap(n, k) == [i \in 1..n |-> IF i = k THEN k + 1 ELSE IF i = k + 1 THEN k ELSE i]

\* The orders a variant lists the entries in: as the source does, or with two
\* neighbours exchanged.
Orders(n) == {Identity(n)} \cup {Swap(n, k) : k \in 1..(n - 1)}

Variant(zin, p, ms) ==
    Zip([i \in 1..Len(p) |-> [zin.entries[p[i]] EXCEPT !.meta = ms[i]]])

InitZip ==
    /\ source \in Archives(MaxEntries, DeterministicMeta)
    /\ perm \in Orders(Len(source.entries))
    /\ metas \in [1..Len(source.entries) -> {DeterministicMeta, ForeignMeta}]
    /\ patterns \in {<< >>, <<pat_qml>>}
    /\ rebuilt = << >>
    /\ IdleCli
    /\ IdleXml

\* _repack_qgz on the source archive, written to another path.
RebuildSource ==
    /\ Len(rebuilt) = 0
    /\ \E r \in {_repack_qgz(source, p_qgz, o_path, DEFAULT_RULES, patterns)} :
          rebuilt' = <<r>>
    /\ UNCHANGED <<source, perm, metas, patterns>>

\* _repack_qgz on the variant, a second and independent invocation.
RebuildVariant ==
    /\ Len(rebuilt) = 1
    /\ \E r \in {_repack_qgz(Variant(source, perm, metas), p_qgz, o_path,
                             DEFAULT_RULES, patterns)} :
          rebuilt' = Append(rebuilt, r)
    /\ UNCHANGED <<source, perm, metas, patterns>>

NextZip ==
    \/ RebuildSource /\ UNCHANGED <<cliVars, xmlVars>>
    \/ RebuildVariant /\ UNCHANGED <<cliVars, xmlVars>>

SpecZip == InitZip /\ [][NextZip]_vars

(***************************************************************************)
(* Canonicalize: sort_children on the children of one parent, then         *)
(* normalize_xml_bytes on the document that holds them, and once more on   *)
(* its own output.                                                         *)
(***************************************************************************)
Leaf(k, n) == Elem("property", <<<<a_key, k>>, <<a_name, n>>>>, None, << >>)

\* The children a parent is made of: properties with numeric keys, with a key
\* float() reads as not-a-number, with text keys, and without a key; an
\* element no rule selects; a comment.
KidPool ==
    { Leaf(<<"2">>, <<"1">>),
      Leaf(<<"n", "a", "n">>, <<"x">>),
      Leaf(<<"1">>, <<"1">>),
      Leaf(<<"1", "0">>, <<"x">>),
      Leaf(<<"a", "b", "c">>, <<"1">>),
      Leaf(<<"Z", "e", "t", "a">>, <<"x">>),
      Elem("property", <<<<a_name, <<"1">>>>, <<a_uuid, <<"7">>>>>>, None, << >>),
      Elem("other", <<<<a_selected, <<"1">>>>, <<a_id, <<"4">>>>>>, None, << >>),
      Comment }

KidLists == UNION { [1..n -> KidPool] : n \in 0..MaxKids }

Project(kids) ==
    Elem("qgis", <<<<a_version, <<"3">>>>, <<a_uuid, <<"7">>>>>>, None,
         <<Elem("customproperties", <<<<a_expanded, <<"1">>>>>>, None, kids)>>)

ByName == SortRule("customproperties", "property", AttrKey(a_name))

\* The rule sets of a run: the defaults, and the defaults merged with a
\* configuration file that adds a second rule for the same parent, more names
\* to strip, or both.
RuleSets ==
    { merge_rules(DEFAULT_RULES, extra) :
        extra \in { NoRules,
                    [sort_rules |-> <<ByName>>],
                    [strip_attributes |-> <<a_id, a_uuid>>],
                    [strip_attributes |-> <<a_name>>, sort_rules |-> <<ByName>>] } }

RulesFor(rs, parent) ==
    { rs.sort_rules[i] : i \in { j \in 1..Len(rs.sort_rules) :
                                    rs.sort_rules[j].parent_xpath = parent } }

InitXml ==
    /\ \E kids \in KidLists :
          /\ kids_before = kids
          /\ doc \in {Bytes(FALSE, Project(kids))}
                     \cup (IF kids = << >> THEN {Malformed} ELSE {})
    /\ rules \in RuleSets
    /\ rule \in RulesFor(rules, "customproperties")
    /\ once = NoBytes
    /\ twice = NoBytes
    /\ kids_after = << >>
    /\ xpc = "input"
    /\ IdleCli
    /\ IdleZip

\* sort_children(parent, rule.child_xpath, rule.key_xpath)
SortChildren ==
    /\ xpc = "input"
    /\ kids_after' = sort_children(kids_before, rule.child_xpath, rule.key_xpath)
    /\ xpc' = "sorted"
    /\ UNCHANGED <<doc, rules, once, twice, kids_before, rule>>

\* normalize_xml_bytes(doc, rules)
Canonicalize ==
    /\ xpc = "sorted"
    /\ \E out \in {normalize_xml_bytes(doc, rules)} :
          /\ once' = out
          /\ xpc' = IF out = XMLSyntaxError THEN "failed" ELSE "once"
    /\ UNCHANGED <<doc, rules, twice, kids_before, kids_after, rule>>

\* normalize_xml_bytes on the output of the first call
Recanonicalize ==
    /\ xpc = "once"
    /\ twice' = normalize_xml_bytes(once, rules)
    /\ xpc' = "twice"
    /\ UNCHANGED <<doc, rules, once, kids_before, kids_after, rule>>

NextXml ==
    \/ SortChildren /\ UNCHANGED <<cliVars, zipVars>>
    \/ Canonicalize /\ UNCHANGED <<cliVars, zipVars>>
    \/ Recanonicalize /\ UNCHANGED <<cliVars, zipVars>>

SpecXml == InitXml /\ [][NextXml]_vars

(***************************************************************************)
(* The claims.                                                             *)
(***************************************************************************)
Range(s) == {s[i] : i \in 1..Len(s)}

\* A run on an existing .qgz archive that reaches _repack_qgz.
RepackRun ==
    /\ ~IsStdin /\ Exists /\ is_qgz /\ ~args.list
    /\ ~(tmp_out = None /\ ~args.dry_run)
    /\ fs[args.input].kind = "zip"
    /\ pc \in {"repacked", "done"}

\* C1: in dry-run mode (stdin, .qgs or .qgz input, any combination of
\* --inplace and --output) no file, neither the input path nor an output path,
\* and no output stream is written at any point of the run.  (--list, which
\* prints the entry names and ends the run before the pipeline, is left out.)
C1_DryRunWritesNothing ==
    args.dry_run /\ ~args.list => written = {} /\ stdout = << >>

\* C2: rebuilding an archive that holds zero entries, or two or more, with the
\* extension .qgs is a fatal failure: no archive is written and the run does
\* not report success.
C2_QgsCountFatal ==
    RepackRun /\ Len(QgsNames(Names(fs[args.input]))) # 1
        => written = {} /\ rc # 0

\* C3: in archive mode a failure to canonicalize the primary document is
\* fatal: nothing is written and the run ends with a non-zero exit code.
C3_PrimaryFailureFatal ==
    (/\ RepackRun
     /\ pc = "done"
     /\ QgsName(Names(fs[args.input])) # None
     /\ ZipRead(fs[args.input], QgsName(Names(fs[args.input]))) = Malformed)
        => written = {} /\ rc # 0

\* The usage errors C10 lists, told from the arguments and the input path.
UsageError ==
    \/ IsStdin /\ (args.inplace \/ args.output # None)
    \/ ~IsStdin /\ ~Exists
    \/ ~IsStdin /\ ~is_qgz /\ ~is_qgs
    \/ ~IsStdin /\ (is_qgz \/ is_qgs) /\ args.inplace /\ args.output # None
    \/ ~IsStdin /\ is_qgz /\ tmp_out = None /\ ~args.dry_run

\* C10: every usage error (missing input path, unsupported extension,
\* --inplace/--output with stdin, both --inplace and --output, archive input
\* with no destination) is detected before any processing: for .qgs and .qgz
\* inputs alike the run returns exit code 2 without canonicalizing anything
\* and without writing to a file or to standard output.  (--list is left out.)
C10_UsageErrorsFirst ==
    UsageError /\ ~args.list
        => /\ normalized = 0 /\ written = {} /\ stdout = << >>
           /\ pc = "done" => rc = 2

\* The names of an archive's regular-file entries: those that name no directory.
IsDirectory(name) == name # << >> /\ name[Len(name)] = "/"
RegularNames(zin) == {n \in Range(Names(zin)) : ~IsDirectory(n)}

Ascending(names) ==
    \A i, j \in 1..Len(names) : i < j => StrLess(names[i], names[j])

\* C4: rebuild is deterministic.  Two invocations, on a source and on a source
\* that differs from it only in the order of its entries and in their
\* metadata, give the same archive; its entries are in ascending name order and
\* every one carries the fixed timestamp, origin system and compression.
C4_RebuildDeterministic ==
    /\ \A k \in 1..Len(rebuilt) :
          /\ Ascending(Names(rebuilt[k].new_bytes))
          /\ \A i \in 1..Len(rebuilt[k].new_bytes.entries) :
                rebuilt[k].new_bytes.entries[i].meta = DeterministicMeta
    /\ Len(rebuilt) = 2 => rebuilt[1].new_bytes = rebuilt[2].new_bytes

\* C4's case: both invocations made, on sources of two or more entries listed
\* in different orders and with other metadata, an entry being tidied.
C4_Witness ==
    /\ Len(rebuilt) = 2
    /\ Len(source.entries) >= 2
    /\ perm # Identity(Len(source.entries))
    /\ \E i \in 1..Len(metas) : metas[i] = ForeignMeta
    /\ rebuilt[1].tidied # {}
    /\ Names(source) # Names(rebuilt[1].new_bytes)

\* C5: pass-through fidelity.  After rebuild every entry that is neither the
\* primary document nor matched by an include pattern has the name and the
\* content it has in the source, and the output holds exactly the names of the
\* source's regular-file entries.
C5_PassThrough ==
    \A k \in 1..Len(rebuilt) :
        LET zin == IF k = 1 THEN source ELSE Variant(source, perm, metas)
            zout == rebuilt[k].new_bytes
        IN  /\ Range(Names(zout)) = RegularNames(zin)
            /\ Len(zout.entries) = Cardinality(RegularNames(zin))
            /\ \A n \in RegularNames(zin) :
                  ~ShouldTidy(n, rebuilt[k].qgs_name, patterns)
                      => ZipRead(zout, n) = ZipRead(zin, n)

\* C6: canonicalize is idempotent, for every well-formed document and every
\* rule set: canonicalize(canonicalize(D, R), R) = canonicalize(D, R).
C6_Idempotent ==
    xpc = "twice" => twice = once

\* The children a rule selects, and the others, in the order of the list.
Block(kids, r) == Select(kids, Matches(kids, r.child_xpath))
Others(kids, r) ==
    Select(kids, [i \in 1..Len(kids) |-> ~Matches(kids, r.child_xpath)[i]])
Count(x, s) == Cardinality({i \in 1..Len(s) : s[i] = x})

\* C7: one sort rule applied to a parent with two or more matching children
\* leaves the child list equal to the non-matching children in their original
\* order followed by the matching children as one block sorted by key; with
\* fewer than two matching children the list is unchanged; no child is lost
\* or duplicated.
C7_SortRule ==
    xpc # "input" =>
        LET before == Block(kids_before, rule)
            after == Block(kids_after, rule)
        IN  IF Len(before) < 2 THEN kids_after = kids_before
            ELSE /\ kids_after = Others(kids_before, rule) \o after
                 /\ \A x \in Range(kids_before) \cup Range(kids_after) :
                       Count(x, kids_after) = Count(x, kids_before)
                 /\ \A i, j \in 1..Len(after) :
                       i < j => ~KeyLess(key_for(after[j], rule.key_xpath),
                                         key_for(after[i], rule.key_xpath))

\* The key C8 gives a child: the one key_for computes, and that of the empty
\* string when the key selector yields nothing.
ClaimedKey(x, key_xpath) ==
    IF XPathKey(x, key_xpath) = << >>
    THEN [cls |-> 1, f |-> Float(<< >>), s |-> << >>]
    ELSE key_for(x, key_xpath)

KeyEq(a, b) ==
    /\ a.cls = b.cls
    /\ IF a.cls = 0 THEN FloatEq(a.f, b.f) ELSE a.s = b.s

\* s restricted to the two values x and y
Only(s, x, y) == Select(s, [i \in 1..Len(s) |-> s[i] \in {x, y}])

\* C8: the sort-key order is a stable total order: numeric keys compare
\* numerically and come before every other key, the others compare as
\* strings, a child without a key is ordered as if its key were the empty
\* string, and children with equal keys keep their relative order.
C8_KeyOrder ==
    xpc # "input" /\ Len(Block(kids_before, rule)) >= 2 =>
        LET before == Block(kids_before, rule)
            after == Block(kids_after, rule)
            K(x) == ClaimedKey(x, rule.key_xpath)
        IN  /\ \A x, y \in Range(before) :
                  KeyLess(K(x), K(y)) \/ KeyLess(K(y), K(x)) \/ KeyEq(K(x), K(y))
            /\ \A x, y \in Range(before) : K(x).cls < K(y).cls => KeyLess(K(x), K(y))
            /\ \A i, j \in 1..Len(after) : i < j => ~KeyLess(K(after[j]), K(after[i]))
            /\ \A x, y \in Range(before) :
                  KeyEq(K(x), K(y)) => Only(after, x, y) = Only(before, x, y)

\* The attributes of a tree: <<tag, name, value>> for every attribute of
\* every element.
RECURSIVE AttrTriples(_)
AttrTriples(x) ==
    IF ~IsElem(x) THEN {}
    ELSE {<<x.tag, x.attrs[i][1], x.attrs[i][2]>> : i \in 1..Len(x.attrs)}
         \cup UNION {AttrTriples(x.kids[i]) : i \in 1..Len(x.kids)}

\* C9: attribute stripping is complete.  No element of canonicalize(D, R), at
\* any depth, carries an attribute whose name is in R's strip names, and the
\* attributes of other names are kept with their values.
C9_StripComplete ==
    xpc \in {"once", "twice"} =>
        LET names == Range(rules.strip_attributes)
        IN  /\ \A t \in AttrTriples(once.root) : t[2] \notin names
            /\ AttrTriples(once.root) = {t \in AttrTriples(doc.root) : t[2] \notin names}

\* C9's case: a document canonicalized that carries strip names on its root,
\* on an inner element and on a leaf, next to attributes that are kept.
C9_Witness ==
    /\ xpc = "once"
    /\ \E t \in AttrTriples(doc.root) :
          t[1] = "property" /\ t[2] \in Range(rules.strip_attributes)
    /\ \E t \in AttrTriples(doc.root) :
          t[1] = "other" /\ t[2] = a_id /\ a_id \in Range(rules.strip_attributes)
    /\ \E t \in AttrTriples(once.root) : t[1] = "property" /\ t[2] = a_key

====
